---- MODULE Spec2Model ----
(***************************************************************************)
(* Model of chat-bot.py: the scheduling and resilience loop of run_bot,    *)
(* with post_tweet as the one action the loop calls (the mention, like and *)
(* follow-back calls are commented out in run_bot, lines 295, 303-311),    *)
(* and, each under a specification of its own, the calls of like_tweets,   *)
(* follow_back_users and reply_to_mentions.                                *)
(* Time is in seconds, as in the source.                                   *)
(***************************************************************************)
EXTENDS Integers, Sequences, FiniteSets, TLC

VARIABLES
    pc,                 \* position of run_bot
    clock,              \* the wall clock, what time.time() returns
    env,                \* the credential variables that are set
    current_time,       \* run_bot local, line 292
    last_tweet_time,    \* run_bot local, line 283
    consecutive_errors, \* run_bot local, line 286
    wait_time,          \* argument of the last inter-cycle time.sleep
    outcome,            \* what ended the post_tweet call of the last cycle
    exit,               \* how run_bot ended
    interruptedAt,      \* position at which CTRL+C was delivered
    tweet_sent,         \* the last create_tweet call created a tweet remotely
    all_failed,         \* history: no cycle has completed without Exception
    failed_run,         \* history: failed cycles since the last successful one
    sleeps,             \* history: backoff sleeps since the last successful cycle
    follow_back_interval, \* run_bot local, line 284
    like,               \* a call of like_tweets
    reply,              \* calls of reply_to_mentions, chained by their cursor
    follow              \* a call of follow_back_users

\* the calls of the three actions that run_bot does not make
fnVars == <<like, reply, follow>>

\* the state of run_bot
botVars == <<pc, clock, env, current_time, last_tweet_time, consecutive_errors,
             wait_time, outcome, exit, interruptedAt, tweet_sent, all_failed,
             failed_run, sleeps, follow_back_interval>>

vars == <<botVars, fnVars>>

----------------------------------------------------------------------------
(* Bounds of the model *)

\* BeginCycle is disabled once the clock has passed MaxTime
MaxTime == 9000
\* a post_tweet call takes 0 or MaxLatency seconds of wall-clock time
MaxLatency == 1
\* the search of like_tweets finds at most MaxFound tweets
MaxFound == 4
\* the account has at most MaxFollowers followers
MaxFollowers == 7
\* the mentions of the account have the ids 1..MaxMentions
MaxMentions == 3
\* reply_to_mentions is called at most MaxCalls times in a row
MaxCalls == 3

----------------------------------------------------------------------------
(* Configuration and constants of the program *)

None == "None"

TWEET_INTERVAL == 60 * 60

FOLLOW_BACK_INTERVAL == 6 * 60 * 60

MAX_LIKES_PER_RUN == 3

\* max_results of search_recent_tweets, line 138
SEARCH_MAX_RESULTS == 10

\* items(20) of the followers cursor, line 237
FOLLOWER_ITEMS == 20

\* the limit of new follows per run, line 255
MAX_FOLLOWS == 5

max_errors == 5

\* time.sleep(100) at the end of a cycle without unhandled error
STEADY_SLEEP == 100

\* base and ceiling of min(300 * (2 ** (consecutive_errors - 1)), 3600)
BACKOFF_BASE == 300
BACKOFF_CAP == 3600

required_vars ==
    {"TWITTER_API_KEY", "TWITTER_API_SECRET", "TWITTER_ACCESS_TOKEN",
     "TWITTER_ACCESS_SECRET", "TWITTER_BEARER_TOKEN"}

\* what happens inside a post_tweet call: create_tweet answers with a tweet
\* id, or raises one of the exceptions post_tweet handles, or an Exception is
\* raised by line 114, which is outside post_tweet's try
ApiResults == {"ok", "TooManyRequests", "Forbidden", "Error"}
AbsorbedFailures == {"TooManyRequests", "Forbidden", "Error"}
PostEvents == ApiResults \cup {"Unhandled"}

Min(a, b) == IF a <= b THEN a ELSE b

\* Python truth value of a returned object
Truthy(v) == v # None /\ v # ""

----------------------------------------------------------------------------
(* Pure functions *)

\* get_credentials: None when a required variable is missing
get_credentials(e) ==
    IF required_vars \ e # {} THEN None ELSE "credentials"

\* authenticate_twitter without the test of line 78
authenticate_twitter_NoCheck(e, apiOk) ==
    IF apiOk THEN <<"client_v1", "client_v2", "api_v1">>
    ELSE <<None, None, None>>

\* authenticate_twitter: the tuple it returns; apiOk is whether get_me()
\* accepts the credentials (otherwise TweepyException is caught)
authenticate_twitter(e, apiOk) ==
    IF ~Truthy(get_credentials(e)) THEN <<None, None>>
    ELSE IF apiOk THEN <<"client_v1", "client_v2", "api_v1">>
    ELSE <<None, None, None>>

\* post_tweet without the except clauses for the rate-limit and forbidden errors
post_tweet_Propagates(r) ==
    IF r = "ok" THEN [raised |-> FALSE, value |-> "tweet_id"]
    ELSE IF r = "Error" THEN [raised |-> FALSE, value |-> None]
    ELSE [raised |-> TRUE, value |-> None]

\* post_tweet returning a true value from its error handlers
post_tweet_AlwaysId(r) ==
    IF r \in {"ok", "TooManyRequests", "Forbidden", "Error"}
    THEN [raised |-> FALSE, value |-> "tweet_id"]
    ELSE [raised |-> TRUE, value |-> None]

\* post_tweet: how the call ends on event r: with a return value (a tweet id
\* or None), or with an exception propagating to the caller
post_tweet(r) ==
    IF r = "ok" THEN [raised |-> FALSE, value |-> "tweet_id"]
    ELSE IF r \in {"TooManyRequests", "Forbidden", "Error"}
    THEN [raised |-> FALSE, value |-> None]
    ELSE [raised |-> TRUE, value |-> None]

\* line 298 with > for >=
IsDue_Strict(now, last) == now - last > TWEET_INTERVAL

\* line 298 with 0 read as "never posted"
IsDue_Unset(now, last) == last = 0 \/ now - last >= TWEET_INTERVAL

\* the condition of line 298
IsDue(now, last) == now - last >= TWEET_INTERVAL

\* line 327 with > for >=
TooManyErrors_Strict(n) == n > max_errors

\* line 327 never true
TooManyErrors_Off(n) == FALSE

\* the condition of line 327
TooManyErrors(n) == n >= max_errors

\* line 332 growing linearly
WaitTime_Linear(n) == Min(BACKOFF_BASE * n, BACKOFF_CAP)

\* the expression of line 332
WaitTime(n) == Min(BACKOFF_BASE * (2 ^ (n - 1)), BACKOFF_CAP)

----------------------------------------------------------------------------
(* Initial state: run_bot is about to authenticate *)

StartTimes == {0, TWEET_INTERVAL - STEADY_SLEEP, TWEET_INTERVAL}

Envs == {required_vars, required_vars \ {"TWITTER_BEARER_TOKEN"}}

\* no call of the action is under way
Idle == [pc |-> "idle"]

Init ==
    /\ pc = "auth"
    /\ clock \in StartTimes
    /\ env \in Envs
    /\ follow_back_interval = 0
    /\ like = Idle
    /\ reply = Idle
    /\ follow = Idle
    /\ current_time = 0
    /\ last_tweet_time = 0
    /\ consecutive_errors = 0
    /\ wait_time = 0
    /\ outcome = "none"
    /\ exit = "none"
    /\ interruptedAt = "none"
    /\ tweet_sent = FALSE
    /\ all_failed = TRUE
    /\ failed_run = 0
    /\ sleeps = <<>>

----------------------------------------------------------------------------
(* run_bot, lines 274-287: connect and initialise the loop's locals *)

Authenticate ==
    /\ pc = "auth"
    /\ UNCHANGED fnVars
    /\ \E apiOk \in BOOLEAN :
         LET t == authenticate_twitter(env, apiOk) IN
         IF Len(t) # 3
         THEN \* client_v1, client_v2, api_v1 = <2-tuple> raises ValueError
              /\ pc' = "crashed"
              /\ exit' = "ValueError"
              /\ follow_back_interval' = follow_back_interval
         ELSE IF ~Truthy(t[1]) \/ ~Truthy(t[2])
         THEN /\ pc' = "returned"
              /\ exit' = "auth"
              /\ follow_back_interval' = follow_back_interval
         ELSE /\ pc' = "tick"
              /\ exit' = exit
              /\ follow_back_interval' = FOLLOW_BACK_INTERVAL
    /\ last_tweet_time' = 0
    /\ consecutive_errors' = 0
    /\ UNCHANGED <<clock, env, current_time, wait_time, outcome, interruptedAt,
                   tweet_sent, all_failed, failed_run, sleeps>>

(* lines 313-318 without line 314 *)
CycleCompletes_NoReset ==
    /\ consecutive_errors' = consecutive_errors
    /\ wait_time' = STEADY_SLEEP
    /\ pc' = "sleeping"
    /\ failed_run' = 0
    /\ sleeps' = <<>>
    /\ all_failed' = FALSE
    /\ exit' = exit

(* lines 313-318: the end of a try body that raised nothing *)
CycleCompletes ==
    /\ consecutive_errors' = 0
    /\ wait_time' = STEADY_SLEEP
    /\ pc' = "sleeping"
    /\ failed_run' = 0
    /\ sleeps' = <<>>
    /\ all_failed' = FALSE
    /\ exit' = exit

(* the loop without the except Exception clause of line 323 *)
CycleFails_Reraise ==
    /\ pc' = "crashed"
    /\ exit' = "Exception"
    /\ UNCHANGED <<consecutive_errors, all_failed, failed_run, wait_time,
                   sleeps>>

(* lines 323-334: the handler of an Exception that escaped the try body *)
CycleFails ==
    LET n == consecutive_errors + 1 IN
    /\ consecutive_errors' = n
    /\ all_failed' = all_failed
    /\ failed_run' = failed_run + 1
    /\ IF TooManyErrors(n)
       THEN /\ pc' = "stopped"
            /\ exit' = "fatal"
            /\ UNCHANGED <<wait_time, sleeps>>
       ELSE /\ wait_time' = WaitTime(n)
            /\ sleeps' = Append(sleeps, WaitTime(n))
            /\ pc' = "backoff"
            /\ exit' = exit

(* lines 290-298: a cycle starts; the post is attempted only when due *)
BeginCycle ==
    /\ pc = "tick"
    /\ UNCHANGED <<follow_back_interval, fnVars>>
    /\ clock <= MaxTime
    /\ current_time' = clock
    /\ IF IsDue(clock, last_tweet_time)
       THEN /\ pc' = "posting"
            /\ outcome' = "pending"
            /\ UNCHANGED <<consecutive_errors, wait_time, exit, all_failed,
                           failed_run, sleeps>>
       ELSE /\ outcome' = "skipped"
            /\ CycleCompletes
    /\ UNCHANGED <<clock, env, last_tweet_time, interruptedAt, tweet_sent>>

(* lines 299-300 with an else branch that clears last_tweet_time *)
PostTweet_ResetOnFailure ==
    /\ pc = "posting"
    /\ UNCHANGED <<follow_back_interval, fnVars>>
    /\ \E r \in PostEvents, d \in {0, MaxLatency}, late \in BOOLEAN :
         LET res == post_tweet(r) IN
         /\ tweet_sent' = (r = "ok" \/ (r = "Error" /\ late))
         /\ clock' = clock + d
         /\ outcome' = r
         /\ IF res.raised
            THEN /\ last_tweet_time' = last_tweet_time
                 /\ CycleFails
            ELSE /\ last_tweet_time' =
                        IF Truthy(res.value) THEN current_time ELSE 0
                 /\ CycleCompletes
    /\ UNCHANGED <<env, current_time, interruptedAt>>

(* lines 299-300 and 112-128: the post_tweet call ends; when it returns a  *)
(* true value the post is recorded at the time the cycle started; when an  *)
(* exception leaves it, the loop's Exception handler runs                  *)
PostTweet ==
    /\ pc = "posting"
    /\ UNCHANGED <<follow_back_interval, fnVars>>
    /\ \E r \in PostEvents, d \in {0, MaxLatency}, late \in BOOLEAN :
         LET res == post_tweet(r) IN
         \* an Exception of lines 117-118 comes after the tweet was created
         /\ tweet_sent' = (r = "ok" \/ (r = "Error" /\ late))
         /\ clock' = clock + d
         /\ outcome' = r
         /\ IF res.raised
            THEN /\ last_tweet_time' = last_tweet_time
                 /\ CycleFails
            ELSE /\ last_tweet_time' =
                        IF Truthy(res.value) THEN current_time
                        ELSE last_tweet_time
                 /\ CycleCompletes
    /\ UNCHANGED <<env, current_time, interruptedAt>>

(* line 318 *)
SleepDone ==
    /\ pc = "sleeping"
    /\ UNCHANGED <<follow_back_interval, fnVars>>
    /\ clock' = clock + wait_time
    /\ pc' = "tick"
    /\ UNCHANGED <<env, current_time, last_tweet_time, consecutive_errors,
                   wait_time, outcome, exit, interruptedAt, tweet_sent,
                   all_failed, failed_run, sleeps>>

(* line 334 *)
BackoffDone ==
    /\ pc = "backoff"
    /\ UNCHANGED <<follow_back_interval, fnVars>>
    /\ clock' = clock + wait_time
    /\ pc' = "tick"
    /\ UNCHANGED <<env, current_time, last_tweet_time, consecutive_errors,
                   wait_time, outcome, exit, interruptedAt, tweet_sent,
                   all_failed, failed_run, sleeps>>

----------------------------------------------------------------------------
(* KeyboardInterrupt: raised in the main thread wherever it is executing *)

\* lines 320-322 with continue for break
StoppedByUser_Continue ==
    /\ pc' = "tick"
    /\ exit' = "user"

\* lines 320-322: the handler of the loop's try statement
StoppedByUser ==
    /\ pc' = "stopped"
    /\ exit' = "user"

\* no handler encloses the statement: the interrupt leaves run_bot
Escapes ==
    /\ pc' = "crashed"
    /\ exit' = "KeyboardInterrupt"

\* during authenticate_twitter, which is outside the loop's try
InterruptAuth ==
    /\ pc = "auth"
    /\ UNCHANGED <<follow_back_interval, fnVars>>
    /\ interruptedAt' = pc
    /\ Escapes
    /\ UNCHANGED <<clock, env, current_time, last_tweet_time,
                   consecutive_errors, wait_time, outcome, tweet_sent,
                   all_failed, failed_run, sleeps>>

\* between two cycles, inside the try body (lines 291-298)
InterruptTick ==
    /\ pc = "tick"
    /\ UNCHANGED <<follow_back_interval, fnVars>>
    /\ interruptedAt' = pc
    /\ StoppedByUser
    /\ UNCHANGED <<clock, env, current_time, last_tweet_time,
                   consecutive_errors, wait_time, outcome, tweet_sent,
                   all_failed, failed_run, sleeps>>

\* an interrupt that waits for post_tweet to return a tweet id
InterruptPost_Deferred ==
    /\ pc = "posting"
    /\ UNCHANGED <<follow_back_interval, fnVars>>
    /\ interruptedAt' = pc
    /\ outcome' = "ok"
    /\ tweet_sent' = TRUE
    /\ last_tweet_time' = current_time
    /\ pc' = "stopped"
    /\ exit' = "user"
    /\ UNCHANGED <<clock, env, current_time, consecutive_errors, wait_time,
                   all_failed, failed_run, sleeps>>

\* inside post_tweet: its handlers catch Exception, which KeyboardInterrupt
\* is not, so the call is abandoned, before or after the tweet was created
InterruptPost ==
    /\ pc = "posting"
    /\ UNCHANGED <<follow_back_interval, fnVars>>
    /\ interruptedAt' = pc
    /\ outcome' = "interrupted"
    /\ tweet_sent' \in BOOLEAN
    /\ StoppedByUser
    /\ UNCHANGED <<clock, env, current_time, last_tweet_time,
                   consecutive_errors, wait_time, all_failed, failed_run,
                   sleeps>>

\* during time.sleep(100), line 318, inside the try body
InterruptSleep ==
    /\ pc = "sleeping"
    /\ UNCHANGED <<follow_back_interval, fnVars>>
    /\ interruptedAt' = pc
    /\ StoppedByUser
    /\ UNCHANGED <<clock, env, current_time, last_tweet_time,
                   consecutive_errors, wait_time, outcome, tweet_sent,
                   all_failed, failed_run, sleeps>>

\* during time.sleep(wait_time), line 334, inside the Exception handler: the
\* except KeyboardInterrupt clause of the same try does not cover it
InterruptBackoff ==
    /\ pc = "backoff"
    /\ UNCHANGED <<follow_back_interval, fnVars>>
    /\ interruptedAt' = pc
    /\ Escapes
    /\ UNCHANGED <<clock, env, current_time, last_tweet_time,
                   consecutive_errors, wait_time, outcome, tweet_sent,
                   all_failed, failed_run, sleeps>>

Next ==
    \/ Authenticate
    \/ BeginCycle
    \/ PostTweet
    \/ SleepDone
    \/ BackoffDone
    \/ InterruptAuth
    \/ InterruptTick
    \/ InterruptPost
    \/ InterruptSleep
    \/ InterruptBackoff

Spec == Init /\ [][Next]_vars

----------------------------------------------------------------------------
(* like_tweets, lines 130-166.  run_bot does not call it (line 303 is a    *)
(* comment); a call is modelled on its own.                                *)

\* the run_bot variables while a call of an action is studied on its own
BotParked ==
    /\ pc = "auth"
    /\ clock = 0
    /\ env = required_vars
    /\ current_time = 0
    /\ last_tweet_time = 0
    /\ consecutive_errors = 0
    /\ wait_time = 0
    /\ outcome = "none"
    /\ exit = "none"
    /\ interruptedAt = "none"
    /\ tweet_sent = FALSE
    /\ all_failed = TRUE
    /\ failed_run = 0
    /\ sleeps = <<>>
    /\ follow_back_interval = 0

\* what search_recent_tweets can do
SearchEvents == {"ok", "TooManyRequests", "Error"}

\* what api_v1.create_favorite can do: like the tweet, raise the
\* TweepyException 'already favorited', raise another TweepyException, or
\* raise an Exception that is no TweepyException
FavoriteEvents == {"liked", "already", "TweepyError", "OtherError"}

\* line 147 without the slice
like_candidates_NoSlice(n) == n

\* the number of tweets of tweets.data[:MAX_LIKES_PER_RUN], line 147
like_candidates(n) == Min(n, MAX_LIKES_PER_RUN)

\* lines 148-158 with the inner handler leaving on 'already favorited'
like_item_AlreadyAborts(o, liked_count) ==
    [liked_count |-> IF o = "liked" THEN liked_count + 1 ELSE liked_count,
     caught |-> o \notin {"OtherError", "already"}]

\* lines 148-158: one iteration, on the event o of create_favorite; caught
\* is whether the iteration ends inside the loop (the inner handler takes
\* every TweepyException) or in the handler of line 164
like_item(o, liked_count) ==
    [liked_count |-> IF o = "liked" THEN liked_count + 1 ELSE liked_count,
     caught |-> o # "OtherError"]

LikeStart ==
    [pc |-> "search", n |-> 0, i |-> 1, liked_count |-> 0, calls |-> 0,
     favorited |-> 0, already |-> 0, last |-> "none", ret |-> None]

\* lines 133-146: the search; nothing found and every exception return 0
LikeSearch ==
    /\ like.pc = "search"
    /\ \E ev \in SearchEvents, found \in 0..Min(MaxFound, SEARCH_MAX_RESULTS) :
         IF ev # "ok" \/ found = 0
         THEN like' = [like EXCEPT !.pc = "done", !.ret = 0, !.last = ev]
         ELSE like' = [like EXCEPT !.pc = "loop", !.n = found, !.last = ev,
                                   !.liked_count = 0]
    /\ UNCHANGED <<botVars, reply, follow>>

\* lines 147-158: one candidate
LikeAttempt ==
    /\ like.pc = "loop"
    /\ like.i <= like_candidates(like.n)
    /\ \E o \in FavoriteEvents :
         LET it == like_item(o, like.liked_count) IN
         IF it.caught
         THEN like' = [like EXCEPT
                         !.i = @ + 1,
                         !.liked_count = it.liked_count,
                         !.calls = @ + 1,
                         !.favorited = IF o = "liked" THEN @ + 1 ELSE @,
                         !.already = IF o = "already" THEN @ + 1 ELSE @,
                         !.last = o]
         ELSE \* lines 164-166
              like' = [like EXCEPT
                         !.pc = "done", !.ret = 0, !.calls = @ + 1,
                         !.already = IF o = "already" THEN @ + 1 ELSE @,
                         !.last = o]
    /\ UNCHANGED <<botVars, reply, follow>>

\* line 160
LikeReturn ==
    /\ like.pc = "loop"
    /\ like.i > like_candidates(like.n)
    /\ like' = [like EXCEPT !.pc = "done", !.ret = like.liked_count]
    /\ UNCHANGED <<botVars, reply, follow>>

----------------------------------------------------------------------------
(* follow_back_users, lines 230-268.  run_bot does not call it (lines       *)
(* 308-311 are comments); a call is modelled on its own.                    *)

\* what lines 233-243 can do: get_me and the listing of the friends succeed,
\* or one of them raises
SetupEvents == {"ok", "Error"}

\* what one step of the followers loop can meet: a follower that is followed
\* already (line 247), a follow_user call that succeeds or raises, or the
\* followers cursor raising while it fetches
FollowerEvents == {"following", "ok", "Error", "CursorError"}

\* the condition of line 255
FollowCap(count) == count >= MAX_FOLLOWS

FollowStart ==
    [pc |-> "start", n |-> 0, i |-> 1, count |-> 0, followed |-> 0,
     calls |-> 0, last |-> "none", ret |-> None]

\* lines 232-245
FollowSetup ==
    /\ follow.pc = "start"
    /\ \E ev \in SetupEvents, m \in 0..Min(MaxFollowers, FOLLOWER_ITEMS) :
         IF ev = "ok"
         THEN follow' = [follow EXCEPT !.pc = "loop", !.n = m, !.count = 0,
                                       !.last = ev]
         ELSE \* lines 266-268
              follow' = [follow EXCEPT !.pc = "done", !.ret = 0, !.last = ev]
    /\ UNCHANGED <<botVars, like, reply>>

\* lines 246-258: one follower
FollowStep ==
    /\ follow.pc = "loop"
    /\ follow.i <= follow.n
    /\ \E ev \in FollowerEvents :
         CASE ev = "following" ->
                follow' = [follow EXCEPT !.i = @ + 1, !.last = ev]
           [] ev = "ok" ->
                follow' = [follow EXCEPT
                             !.i = @ + 1,
                             !.count = @ + 1,
                             !.followed = @ + 1,
                             !.calls = @ + 1,
                             !.last = ev,
                             !.pc = IF FollowCap(follow.count + 1)
                                    THEN "after" ELSE "loop"]
           [] ev = "Error" ->
                follow' = [follow EXCEPT !.i = @ + 1, !.calls = @ + 1,
                                         !.last = ev]
           [] ev = "CursorError" ->
                \* lines 266-268
                follow' = [follow EXCEPT !.pc = "done", !.ret = 0,
                                         !.last = ev]
    /\ UNCHANGED <<botVars, like, reply>>

\* lines 260-265: after the loop ended or was left by break
FollowReturn ==
    /\ \/ follow.pc = "after"
       \/ follow.pc = "loop" /\ follow.i > follow.n
    /\ follow' = [follow EXCEPT !.pc = "done", !.ret = follow.count]
    /\ UNCHANGED <<botVars, like, reply>>

(* one call of like_tweets and one call of follow_back_users *)
ActionsInit ==
    /\ BotParked
    /\ like = LikeStart
    /\ follow = FollowStart
    /\ reply = Idle

ActionsNext ==
    \/ LikeSearch
    \/ LikeAttempt
    \/ LikeReturn
    \/ FollowSetup
    \/ FollowStep
    \/ FollowReturn

ActionsSpec == ActionsInit /\ [][ActionsNext]_vars

----------------------------------------------------------------------------
(* reply_to_mentions, lines 168-228, called as at line 295 (a comment in   *)
(* run_bot): since_id = reply_to_mentions(client_v1, since_id).  Mention   *)
(* ids are positive; the cursor None is written 0, which the tests of      *)
(* lines 177, 193 and 194 treat alike.                                     *)

\* what lines 172-183 can do
MentionsEvents == {"ok", "TooManyRequests", "Error"}

\* what the handling of one mention can meet: the reply is posted, the reply
\* fails (handled at line 219), or the look-up of the author at line 207
\* raises
MentionEvents == {"replied", "reply_failed", "lookup_error"}

\* get_users_mentions: the mentions newer than since_id, newest first; the
\* mentions that exist are 1..latest
get_users_mentions(latest, since_id) ==
    [j \in 1..(IF latest > since_id THEN latest - since_id ELSE 0)
        |-> latest - j + 1]

\* lines 194-195 taking the mention seen last
new_cursor_Last(new_since_id, id) == id

\* lines 194-195
new_cursor(new_since_id, id) ==
    IF new_since_id = 0 \/ id > new_since_id THEN id ELSE new_since_id

ReplyStart(latest) ==
    [pc |-> "call", since_id |-> 0, latest |-> latest, batch |-> <<>>,
     k |-> 1, new_since_id |-> 0, ret |-> 0, calls |-> 1, last |-> "none",
     replies |-> [m \in 1..MaxMentions |-> 0]]

\* lines 170-190: fetch the mentions
ReplyFetch ==
    /\ reply.pc = "call"
    /\ \E ev \in MentionsEvents :
         LET data == get_users_mentions(reply.latest, reply.since_id) IN
         IF ev # "ok" \/ data = <<>>
         THEN \* lines 187, 225, 228
              reply' = [reply EXCEPT !.pc = "returned", !.last = ev,
                                     !.batch = <<>>,
                                     !.ret = reply.since_id]
         ELSE reply' = [reply EXCEPT !.pc = "loop", !.last = ev,
                                     !.batch = data, !.k = 1,
                                     !.new_since_id = reply.since_id]
    /\ UNCHANGED <<botVars, like, follow>>

\* lines 192-220: one mention
ReplyStep ==
    /\ reply.pc = "loop"
    /\ reply.k <= Len(reply.batch)
    /\ LET id == reply.batch[reply.k] IN
       IF reply.since_id = 0 \/ id > reply.since_id
       THEN \E ev \in MentionEvents :
              CASE ev = "replied" ->
                     reply' = [reply EXCEPT
                                 !.new_since_id = new_cursor(@, id),
                                 !.replies[id] = @ + 1,
                                 !.k = @ + 1, !.last = ev]
                [] ev = "reply_failed" ->
                     reply' = [reply EXCEPT
                                 !.new_since_id = new_cursor(@, id),
                                 !.k = @ + 1, !.last = ev]
                [] ev = "lookup_error" ->
                     \* lines 226-228
                     reply' = [reply EXCEPT
                                 !.new_since_id = new_cursor(@, id),
                                 !.pc = "returned", !.last = ev,
                                 !.ret = reply.since_id]
       ELSE reply' = [reply EXCEPT !.k = @ + 1]
    /\ UNCHANGED <<botVars, like, follow>>

\* line 222
ReplyReturn ==
    /\ reply.pc = "loop"
    /\ reply.k > Len(reply.batch)
    /\ reply' = [reply EXCEPT !.pc = "returned", !.ret = reply.new_since_id]
    /\ UNCHANGED <<botVars, like, follow>>

\* line 295: the caller keeps the returned cursor and calls again; new
\* mentions may have arrived
ReplyAgain ==
    /\ reply.pc = "returned"
    /\ reply.calls < MaxCalls
    /\ \E l \in reply.latest..MaxMentions :
         reply' = [reply EXCEPT !.pc = "call", !.since_id = reply.ret,
                                !.latest = l, !.calls = @ + 1,
                                !.batch = <<>>, !.k = 1]
    /\ UNCHANGED <<botVars, like, follow>>

ReplyInit ==
    /\ BotParked
    /\ like = Idle
    /\ follow = Idle
    /\ \E l \in 0..MaxMentions : reply = ReplyStart(l)

ReplyNext ==
    \/ ReplyFetch
    \/ ReplyStep
    \/ ReplyReturn
    \/ ReplyAgain

ReplySpec == ReplyInit /\ [][ReplyNext]_vars

TypeOK ==
    /\ pc \in {"auth", "tick", "posting", "sleeping", "backoff", "stopped",
               "returned", "crashed"}
    /\ clock \in Nat
    /\ consecutive_errors \in Nat
    /\ tweet_sent \in BOOLEAN

----------------------------------------------------------------------------
(* Properties of the backoff controller *)

\* C1, as stated: a cycle in which post_tweet failed (rate-limited, forbidden
\* or any other error) increments consecutive_errors and is followed by the
\* backoff sleep instead of the steady-state sleep.
C1_FailedPostBacksOff ==
    (pc \in {"sleeping", "backoff"} /\ outcome \in AbsorbedFailures)
        => (pc = "backoff" /\ consecutive_errors >= 1)

\* C1, amended: a failure that post_tweet absorbs (rate-limited, forbidden,
\* other Exception of create_tweet) makes it return None; the cycle then
\* resets consecutive_errors to 0 and is followed by the steady-state sleep.
\* Only an exception that leaves post_tweet increments consecutive_errors and
\* is followed by the backoff sleep or the fatal stop.
C1_AbsorbedFailureIsNoFailedCycle ==
    /\ (pc \in {"sleeping", "backoff"} /\ outcome \in AbsorbedFailures)
           => (pc = "sleeping" /\ consecutive_errors = 0
               /\ wait_time = STEADY_SLEEP)
    /\ (pc \in {"sleeping", "backoff"} /\ outcome = "Unhandled")
           => (pc = "backoff" /\ consecutive_errors >= 1)
    /\ outcome = "Unhandled" => consecutive_errors >= 1

C1_Witness ==
    pc = "sleeping" /\ outcome = "TooManyRequests" /\ consecutive_errors = 0

\* C2: after a cycle that ended in the Exception handler with
\* consecutive_errors = n < max_errors the loop sleeps min(300 * 2^(n-1), 3600)
\* seconds; after a cycle without unhandled error it sleeps the steady-state
\* interval; the backoff sleeps of a run of failures never decrease and never
\* exceed 3600.
C2_BackoffSleep ==
    /\ [](pc = "backoff" =>
            /\ consecutive_errors \in 1..(max_errors - 1)
            /\ wait_time = Min(300 * (2 ^ (consecutive_errors - 1)), 3600)
            /\ sleeps[Len(sleeps)] = wait_time)
    /\ [](pc = "sleeping" => wait_time = 100)
    /\ [](wait_time <= 3600)
    /\ [](\A i \in 1..(Len(sleeps) - 1) : sleeps[i] <= sleeps[i + 1])
    /\ [][(pc \in {"sleeping", "backoff"} /\ pc' = "tick")
            => clock' = clock + wait_time]_vars

C2_Witness ==
    pc = "backoff" /\ consecutive_errors = 3 /\ wait_time = 1200

\* C3, as stated: failures 1..5 yield the sleeps 300, 600, 1200, 2400, 3600,
\* so a 3600 s sleep has occurred when the loop stops at the fatal threshold.
C3_CapReachedBeforeStop ==
    exit = "fatal" => sleeps = <<300, 600, 1200, 2400, 3600>>

\* C3, amended: failures 1..4 yield the sleeps 300, 600, 1200, 2400 and at
\* failure 5 the loop stops instead of sleeping; no backoff sleep ever lasts
\* 3600 s, the cap is not reached before the fatal threshold.
C3_SleepsBeforeStop ==
    /\ exit = "fatal" =>
          (consecutive_errors = 5 /\ sleeps = <<300, 600, 1200, 2400>>)
    /\ \A i \in DOMAIN sleeps : sleeps[i] = 300 * (2 ^ (i - 1))
    /\ \A i \in DOMAIN sleeps : sleeps[i] < 3600
    /\ pc = "backoff" => Len(sleeps) = consecutive_errors

C3_Witness ==
    exit = "fatal" /\ Len(sleeps) = 4

\* C4: when consecutive_errors reaches max_errors run_bot leaves the loop
\* without sleeping, nothing is executed after it stopped, and when every
\* cycle fails with an unhandled error the loop stops after exactly 5 cycles.
C4_FatalStop ==
    /\ [](consecutive_errors >= max_errors
            => (pc = "stopped" /\ exit = "fatal"))
    /\ []((all_failed /\ failed_run >= 5) => pc = "stopped")
    /\ []((all_failed /\ exit = "fatal") => failed_run = 5)
    /\ [][(exit # "fatal" /\ exit' = "fatal")
            => (pc' = "stopped" /\ consecutive_errors' = max_errors
                /\ wait_time' = wait_time)]_vars
    /\ [][pc = "stopped" => UNCHANGED vars]_vars

C4_Witness ==
    pc = "stopped" /\ exit = "fatal" /\ all_failed /\ failed_run = 5

\* C5: consecutive_errors stays between 0 and max_errors, becomes 0 exactly
\* when a cycle's actions complete without unhandled exception, grows by
\* exactly 1 in a cycle that raises one, and so equals the number of failed
\* cycles since the last successful one.
C5_ErrorCounter ==
    /\ [](consecutive_errors \in 0..max_errors)
    /\ [](consecutive_errors = failed_run)
    /\ [][(pc \in {"tick", "posting"} /\ pc' = "sleeping")
            => consecutive_errors' = 0]_vars
    /\ [][outcome' = "Unhandled" /\ outcome # "Unhandled"
            => consecutive_errors' = consecutive_errors + 1]_vars
    /\ [][consecutive_errors' # consecutive_errors
            => \/ consecutive_errors' = 0 /\ pc' = "sleeping"
               \/ /\ consecutive_errors' = consecutive_errors + 1
                  /\ outcome' = "Unhandled" /\ pc = "posting"]_vars

C5_Witness ==
    pc = "backoff" /\ consecutive_errors = 2 /\ failed_run = 2
        /\ all_failed = FALSE /\ last_tweet_time > 0

----------------------------------------------------------------------------
(* Properties of the cadence of the post *)

\* C6: after a successful post recorded at time t, post_tweet is not called in
\* a cycle whose current_time is below t + TWEET_INTERVAL, it is called in the
\* first cycle whose current_time is at least t + TWEET_INTERVAL, and two
\* successful posts are recorded at least TWEET_INTERVAL apart.
C6_PostCadence ==
    /\ [][(last_tweet_time # 0 /\ pc = "tick" /\ pc' = "posting")
            => current_time' >= last_tweet_time + TWEET_INTERVAL]_vars
    /\ [][(last_tweet_time # 0 /\ pc = "tick" /\ pc' = "sleeping")
            => current_time' < last_tweet_time + TWEET_INTERVAL]_vars
    /\ [][(last_tweet_time # 0 /\ last_tweet_time' # last_tweet_time)
            => last_tweet_time' >= last_tweet_time + TWEET_INTERVAL]_vars
    /\ [](last_tweet_time # 0 /\ pc = "posting"
            => current_time >= last_tweet_time + TWEET_INTERVAL)

C6_Witness ==
    pc = "posting" /\ last_tweet_time = TWEET_INTERVAL
        /\ current_time = 2 * TWEET_INTERVAL

\* C7, as stated: a post that has never run is due at the first tick for
\* every value of the clock, so it is never skipped before it ran once.
C7_NeverRunIsDue ==
    outcome = "skipped" => last_tweet_time # 0

\* C7, amended: the post is due iff current_time - last_tweet_time >=
\* TWEET_INTERVAL, where last_tweet_time is 0 until the first successful post;
\* a post that has never run is due at the first tick iff the clock reads at
\* least TWEET_INTERVAL, and is skipped at now = 0 and at any now below
\* TWEET_INTERVAL.
C7_DueFromZero ==
    /\ [][(pc = "tick" /\ pc' \in {"posting", "sleeping"})
            => (pc' = "posting"
                    <=> current_time' - last_tweet_time >= TWEET_INTERVAL)]_vars
    /\ []((outcome = "skipped" /\ last_tweet_time = 0)
            => current_time < TWEET_INTERVAL)
    /\ []((outcome = "pending" /\ last_tweet_time = 0)
            => current_time >= TWEET_INTERVAL)

C7_Witness ==
    pc = "sleeping" /\ outcome = "skipped" /\ last_tweet_time = 0
        /\ current_time = 0

\* C8: last_tweet_time changes only in a cycle where the post was due and
\* post_tweet returned a tweet id, and becomes that cycle's current_time; it
\* is unchanged when the post was not due, failed or was left by an
\* exception, and the post is then due again at the next tick.
C8_LastTweetTimeFrame ==
    /\ [][last_tweet_time' # last_tweet_time
            => /\ pc = "posting" /\ outcome' = "ok"
               /\ current_time - last_tweet_time >= TWEET_INTERVAL
               /\ last_tweet_time' = current_time]_vars
    /\ [][(pc = "posting" /\ outcome' = "ok")
            => last_tweet_time' = current_time]_vars
    /\ [][(pc = "tick" /\ outcome \in AbsorbedFailures \cup {"Unhandled"}
           /\ pc' \notin {"tick", "stopped"})
            => pc' = "posting"]_vars

C8_Witness ==
    pc = "sleeping" /\ outcome = "ok" /\ last_tweet_time = current_time
        /\ last_tweet_time > TWEET_INTERVAL /\ clock # current_time

----------------------------------------------------------------------------
(* Properties of the operator interrupt *)

\* C9: an interrupt delivered during an inter-cycle sleep, the steady-state
\* sleep as well as the backoff sleep, makes run_bot stop through the
\* 'stopped by user' path; it does not leave run_bot as an exception.
C9_InterruptInSleepStops ==
    interruptedAt \in {"sleeping", "backoff"}
        => (pc = "stopped" /\ exit = "user")

\* C10, as stated: an interrupt that arrives while post_tweet is in progress
\* does not abort the call; the call completes and its cadence update is
\* applied before the loop stops.
C10_InterruptWaitsForPost ==
    interruptedAt = "posting"
        => /\ outcome \in ApiResults
           /\ (outcome = "ok" => last_tweet_time = current_time)

\* C10, amended: an interrupt that arrives while post_tweet is in progress
\* aborts the call (post_tweet handles Exception only): run_bot stops at once
\* through the 'stopped by user' path and last_tweet_time is not updated,
\* whether or not the tweet was already created.
C10_InterruptAbortsPost ==
    /\ [][(interruptedAt # "posting" /\ interruptedAt' = "posting")
            => /\ pc = "posting" /\ pc' = "stopped" /\ exit' = "user"
               /\ outcome' = "interrupted"
               /\ UNCHANGED <<last_tweet_time, consecutive_errors, clock>>]_vars
    /\ [](interruptedAt = "posting"
            => (pc = "stopped" /\ last_tweet_time # current_time))

C10_Witness ==
    interruptedAt = "posting" /\ pc = "stopped" /\ tweet_sent
        /\ last_tweet_time # current_time

\* C11: an interrupt during the inter-cycle sleep of line 318 stops run_bot
\* through the handler of line 320; after an interrupt in either sleep
\* run_bot has ended, nothing is executed any more, and last_tweet_time and
\* the other cadence values are those the sleep began with.
C11_CancelInSleepKeepsCadence ==
    /\ [](interruptedAt = "sleeping" => (pc = "stopped" /\ exit = "user"))
    /\ [](interruptedAt \in {"sleeping", "backoff"}
            => pc \in {"stopped", "crashed"})
    /\ [][(interruptedAt = "none"
           /\ interruptedAt' \in {"sleeping", "backoff"})
            => UNCHANGED <<last_tweet_time, follow_back_interval,
                           current_time, consecutive_errors, outcome,
                           tweet_sent, clock>>]_vars
    /\ [][(interruptedAt \in {"sleeping", "backoff"})
            => (vars' = vars)]_vars

C11_Witness ==
    interruptedAt = "sleeping" /\ pc = "stopped" /\ outcome = "ok"
        /\ last_tweet_time = current_time /\ last_tweet_time > 0

----------------------------------------------------------------------------
(* Properties of start-up and of the loop as a whole *)

LoopPcs == {"tick", "posting", "sleeping", "backoff"}

\* C12: when authentication fails, a credential variable missing or the API
\* rejecting the credentials, run_bot never enters the main loop: no cycle
\* runs and post_tweet is never called.
C12_AuthFailureNeverLoops ==
    (env # required_vars \/ exit = "auth")
        => /\ pc \in {"auth", "returned", "crashed"}
           /\ outcome = "none"
           /\ ~tweet_sent
           /\ wait_time = 0

C12_Witness ==
    pc = "returned" /\ exit = "auth" /\ env = required_vars

\* C13: an Exception raised during a cycle is caught by the loop and counted
\* as one failed cycle; run_bot leaves the loop only on an interrupt or when
\* consecutive_errors reaches max_errors, and otherwise always has a next
\* step to take.
C13_LoopOnlyEndsOnInterruptOrFatal ==
    /\ [][(pc = "posting" /\ outcome' = "Unhandled")
            => (consecutive_errors' = consecutive_errors + 1
                /\ pc' \in {"backoff", "stopped"})]_vars
    /\ [][(pc \in LoopPcs /\ pc' \notin LoopPcs)
            => (interruptedAt' # interruptedAt
                \/ (consecutive_errors' = max_errors
                    /\ pc' = "stopped" /\ exit' = "fatal"))]_vars
    /\ []((pc \notin LoopPcs /\ outcome # "none")
            => \/ interruptedAt # "none"
               \/ consecutive_errors = max_errors)
    /\ []((pc \in LoopPcs /\ clock <= MaxTime)
            => ENABLED (BeginCycle \/ PostTweet \/ SleepDone \/ BackoffDone))

C13_Witness ==
    pc = "tick" /\ outcome = "Unhandled" /\ consecutive_errors = 4
        /\ interruptedAt = "none"

\* C15: last_tweet_time never decreases, and follow_back_interval is not
\* modified once the loop's locals are initialised (TWEET_INTERVAL is a
\* constant of the module).
C15_CadenceMonotone ==
    /\ [][last_tweet_time' >= last_tweet_time]_vars
    /\ [][pc # "auth" => follow_back_interval' = follow_back_interval]_vars
    /\ [](pc \in LoopPcs => follow_back_interval = 6 * 60 * 60)

C15_Witness ==
    pc = "sleeping" /\ outcome = "TooManyRequests"
        /\ last_tweet_time = TWEET_INTERVAL
        /\ current_time >= 2 * TWEET_INTERVAL

\* C18: authenticate_twitter returns three elements on every path, so the
\* unpacking of line 275 never fails: with a credential variable missing
\* run_bot reports that it could not authenticate and returns normally.
C18_MissingCredentialReturnsNormally ==
    (interruptedAt = "none" /\ pc # "auth" /\ env # required_vars)
        => (pc = "returned" /\ exit = "auth")

----------------------------------------------------------------------------
(* Properties of like_tweets and follow_back_users *)

\* C14: an 'already favorited' error of a like attempt is no failure: the
\* loop goes on to the remaining candidates, the tweet is not counted in the
\* returned liked count, and like_tweets returns normally, so that no
\* exception reaches run_bot (consecutive_errors is untouched).
C14_AlreadyFavoritedIsBenign ==
    /\ [][(like'.calls = like.calls + 1 /\ like'.last = "already")
            => (/\ like'.pc = "loop"
                /\ like'.i = like.i + 1
                /\ like'.liked_count = like.liked_count)]_vars
    /\ []((like.pc = "done" /\ like.n > 0 /\ like.last # "OtherError")
            => (/\ like.calls = Min(like.n, 3)
                /\ like.ret = like.favorited
                /\ like.ret + like.already <= like.calls))
    /\ [](like.pc = "loop" => ENABLED (LikeAttempt \/ LikeReturn))
    /\ [](like.pc = "done" => like.ret \in Nat)

C14_Witness ==
    like.pc = "done" /\ like.calls = 3 /\ like.already = 2
        /\ like.last = "liked" /\ like.ret = 1

\* C17: a call of like_tweets issues at most MAX_LIKES_PER_RUN
\* create_favorite calls and returns a count in 0..MAX_LIKES_PER_RUN; a call
\* of follow_back_users performs at most 5 successful follow_user calls and
\* returns a count in 0..5.
C17_PerRunCaps ==
    /\ like.calls <= 3
    /\ like.pc = "done" => like.ret \in 0..3
    /\ follow.followed <= 5
    /\ follow.pc = "done" => follow.ret \in 0..5

C17_Witness ==
    /\ like.pc = "done" /\ like.n = 4 /\ like.ret = 3
    /\ follow.pc = "done" /\ follow.n = 7 /\ follow.ret = 5 /\ follow.i = 6

----------------------------------------------------------------------------
(* Properties of reply_to_mentions *)

\* the largest element of a non-empty sequence of numbers
MaxOf(seq) == CHOOSE x \in {seq[j] : j \in DOMAIN seq} :
                 \A y \in {seq[j] : j \in DOMAIN seq} : y <= x

\* C16: on every path the cursor returned by reply_to_mentions(client,
\* since_id) is since_id itself or a mention id strictly larger than
\* since_id, and it is the largest mention id seen when the mentions were
\* processed without error; the cursor of the caller never decreases.
C16_CursorNeverDecreases ==
    /\ [](reply.pc = "returned" =>
            \/ reply.ret = reply.since_id
            \/ /\ reply.ret > reply.since_id
               /\ \E j \in DOMAIN reply.batch : reply.batch[j] = reply.ret)
    /\ []((reply.pc = "returned" /\ reply.batch # <<>>
           /\ reply.last # "lookup_error")
            => reply.ret = MaxOf(reply.batch))
    /\ [](reply.pc = "returned"
            /\ reply.last \in {"TooManyRequests", "Error", "lookup_error"}
            => reply.ret = reply.since_id)
    /\ [][reply'.since_id >= reply.since_id]_vars

C16_Witness ==
    reply.pc = "returned" /\ reply.since_id = 1 /\ reply.ret = 3
        /\ Len(reply.batch) = 2 /\ reply.last = "reply_failed"

\* C19: when each call of reply_to_mentions receives the cursor returned by
\* the call before, no mention is replied to more than once, also when a
\* call fails partway through a batch.
C19_NoMentionRepliedTwice ==
    \A m \in 1..MaxMentions : reply.replies[m] <= 1

====
